---- MODULE Spec2Model ----
(***************************************************************************)
(* A model of db(file, options) of @inrixia/db: a file backed object whose *)
(* property writes are persisted as JSON, optionally encrypted, optionally *)
(* kept in step with external edits of the file by a debounced watcher.    *)
(*                                                                         *)
(* JavaScript objects live in a heap of nodes with identities, because the *)
(* program's behaviour depends on which nodes are shared: the root is a    *)
(* shallow copy of the template, the caller may hold a nested node, and    *)
(* the merge of an external edit works in place.  JSON text is modelled by *)
(* its document tree; a file's content says how that text is stored.       *)
(*                                                                         *)
(* Assumptions on the inputs the model enumerates:                         *)
(*  - keys are ordinary names, none inherited from Object.prototype;       *)
(*  - the values the caller writes are JSON-safe and keep arrays dense     *)
(*    (an index write overwrites or appends, a delete is on a mapping);    *)
(*  - the keys of a JSON text appear in the order of KeyOrder, which is    *)
(*    then also the order for-in visits them;                              *)
(*  - every file write gets a later modification time than the one before. *)
(*  - mkdirSync or writeFileSync may fail on a caller's write, and a failed *)
(*    one leaves the file as it was; an uncaught error in a timer callback *)
(*    does not end the process.                                            *)
(***************************************************************************)
EXTENDS Integers, Sequences, FiniteSets, TLC

\* The most caller writes (refused ones too), caller deletes and external
\* writes of one run.
MaxOps == 2

\* The node identities of the heap.
MaxNodes == 9

NodeIds == 1..MaxNodes

\* for-in order: integer keys ascending, then the string keys.
KeyOrder == <<"0", "1", "a", "b">>

IdxKeys == <<"0", "1">>

IdxKey(i) == IdxKeys[i + 1]

IdxOf(k) == CHOOSE i \in 0..(Len(IdxKeys) - 1) : IdxKey(i) = k

IsIndexKey(k) == \E i \in 0..(Len(IdxKeys) - 1) : IdxKey(i) = k

EmptyF == [k \in {} |-> 0]

(***************************************************************************)
(* JSON documents (the text of a file, a snapshot, a literal).             *)
(***************************************************************************)
DNum(n) == [t |-> "num", n |-> n, f |-> EmptyF]

DNull == [t |-> "null", n |-> 0, f |-> EmptyF]

DObj(f) == [t |-> "obj", n |-> 0, f |-> f]

DArr(s) == [t |-> "arr", n |-> Len(s), f |-> [k \in {IdxKey(i - 1) : i \in 1..Len(s)} |-> s[IdxOf(k) + 1]]]

DEmpty == DObj(EmptyF)

\* typeof d === "object": mappings, arrays and null.
TypeofObject(d) == d.t \in {"obj", "arr", "null"}

IsContainer(d) == d.t \in {"obj", "arr"}

(***************************************************************************)
(* The heap: a node is a mapping or an array; a cell is what a property    *)
(* holds: a number, null, or a reference to a node.                        *)
(***************************************************************************)
Num(n) == [t |-> "num", v |-> n]

Null == [t |-> "null", v |-> 0]

Ref(i) == [t |-> "ref", v |-> i]

FreeNode == [kind |-> "free", len |-> 0, f |-> EmptyF]

EmptyHeap == [i \in NodeIds |-> FreeNode]

FreeIds(h) == {i \in NodeIds : h[i].kind = "free"}

FirstFree(h) == CHOOSE i \in FreeIds(h) : \A j \in FreeIds(h) : i <= j

\* target[key] = cell; an index at or past an array's length extends it.
SetField(h, id, k, c) ==
  LET nd == h[id]
      nf == [x \in (DOMAIN nd.f) \cup {k} |-> IF x = k THEN c ELSE nd.f[x]]
      nl == IF nd.kind = "arr" /\ IsIndexKey(k) /\ IdxOf(k) >= nd.len
            THEN IdxOf(k) + 1 ELSE nd.len
  IN [h EXCEPT ![id] = [kind |-> nd.kind, len |-> nl, f |-> nf]]

\* delete target[key]: the key goes, an array keeps its length (a hole).
DelField(h, id, k) ==
  LET nd == h[id]
  IN [h EXCEPT ![id] = [kind |-> nd.kind, len |-> nd.len,
                        f |-> [x \in (DOMAIN nd.f) \ {k} |-> nd.f[x]]]]

\* The number of nodes a document needs.
RECURSIVE NodeCount(_)
NodeCount(d) ==
  IF ~IsContainer(d) THEN 0
  ELSE LET RECURSIVE Sum(_)
           Sum(i) == IF i > Len(KeyOrder) THEN 0
                     ELSE (IF KeyOrder[i] \in DOMAIN d.f THEN NodeCount(d.f[KeyOrder[i]]) ELSE 0)
                          + Sum(i + 1)
       IN 1 + Sum(1)

\* A document becomes a value of the heap: a leaf is its cell, a mapping or
\* an array gets fresh nodes (JSON.parse, or an object literal of the caller).
RECURSIVE Store(_, _)
RECURSIVE StoreKeys(_, _, _, _)
Store(h, d) ==
  IF d.t = "num" THEN [h |-> h, c |-> Num(d.n)]
  ELSE IF d.t = "null" THEN [h |-> h, c |-> Null]
  ELSE LET id == FirstFree(h)
           h1 == [h EXCEPT ![id] = [kind |-> d.t, len |-> d.n, f |-> EmptyF]]
       IN [h |-> StoreKeys(h1, id, d, 1), c |-> Ref(id)]

StoreKeys(h, id, d, i) ==
  IF i > Len(KeyOrder) THEN h
  ELSE IF KeyOrder[i] \notin DOMAIN d.f THEN StoreKeys(h, id, d, i + 1)
  ELSE LET r == Store(h, d.f[KeyOrder[i]])
       IN StoreKeys(SetField(r.h, id, KeyOrder[i], r.c), id, d, i + 1)

\* The value a cell holds, as a tree: what deep equality compares.  A hole
\* of an array is a missing key, and the length is part of the value.
RECURSIVE Value(_, _)
Value(h, c) ==
  IF c.t = "num" THEN DNum(c.v)
  ELSE IF c.t = "null" THEN DNull
  ELSE LET nd == h[c.v]
       IN [t |-> nd.kind, n |-> nd.len, f |-> [k \in DOMAIN nd.f |-> Value(h, nd.f[k])]]

\* A serializer that drops nested mappings and arrays.
StringifyShallow(h, c) ==
  IF c.t = "num" THEN DNum(c.v)
  ELSE IF c.t = "null" THEN DNull
  ELSE LET nd == h[c.v]
           Leaf(x) == IF x.t = "num" THEN DNum(x.v) ELSE DNull
       IN IF nd.kind = "arr"
          THEN [t |-> "arr", n |-> nd.len,
                f |-> [k \in {IdxKey(i) : i \in 0..(nd.len - 1)} |->
                         IF k \in DOMAIN nd.f THEN Leaf(nd.f[k]) ELSE DNull]]
          ELSE [t |-> "obj", n |-> 0, f |-> [k \in DOMAIN nd.f |-> Leaf(nd.f[k])]]

\* JSON.stringify: a mapping gives its own keys; an array gives the indices
\* below its length, a hole as null, and none of its other keys.
RECURSIVE Stringify(_, _)
Stringify(h, c) ==
  IF c.t = "num" THEN DNum(c.v)
  ELSE IF c.t = "null" THEN DNull
  ELSE LET nd == h[c.v]
       IN IF nd.kind = "arr"
          THEN [t |-> "arr", n |-> nd.len,
                f |-> [k \in {IdxKey(i) : i \in 0..(nd.len - 1)} |->
                         IF k \in DOMAIN nd.f THEN Stringify(h, nd.f[k]) ELSE DNull]]
          ELSE [t |-> "obj", n |-> 0, f |-> [k \in DOMAIN nd.f |-> Stringify(h, nd.f[k])]]

\* The nodes reachable from a set of nodes.
RECURSIVE Reach(_, _)
Reach(h, S) ==
  LET N == S \cup {h[i].f[k].v : <<i, k>> \in {p \in S \X {KeyOrder[j] : j \in 1..Len(KeyOrder)} :
                                      p[2] \in DOMAIN h[p[1]].f /\ h[p[1]].f[p[2]].t = "ref"}}
  IN IF N = S THEN S ELSE Reach(h, N)

\* Nodes nothing refers to any more are reclaimed by the runtime.
Collect(h, roots) ==
  LET live == Reach(h, roots \ {0})
  IN [i \in NodeIds |-> IF i \in live THEN h[i] ELSE FreeNode]

(***************************************************************************)
(* Files.  A content is the text of a file: plain JSON text, the output of *)
(* encrypt (<ivHex>:<cipherHex>, which only the same key decrypts), or the *)
(* empty string.  A disk is the backing file and its folder.               *)
(***************************************************************************)
\* options.cryptKey undefined.
NoKey == "undefined"

Plain(d) == [fmt |-> "plain", key |-> NoKey, iv |-> 0, doc |-> d]

\* The empty string.
EmptyContent == [fmt |-> "empty", key |-> NoKey, iv |-> 0, doc |-> DNull]

\* In place of a content: fs.mkdirSync or fs.writeFileSync throws.
FsError == [fmt |-> "error", key |-> NoKey, iv |-> 0, doc |-> DNull]

NoContent == [fmt |-> "none", key |-> NoKey, iv |-> 0, doc |-> DNull]

\* encrypt: a fresh iv, the text enciphered under the key.
encrypt(d, key, iv) == [fmt |-> "crypt", key |-> key, iv |-> iv, doc |-> d]

\* rawStoreData[0]
FirstChar(c) ==
  IF c.fmt = "plain" THEN (IF c.doc.t = "obj" THEN "{" ELSE IF c.doc.t = "arr" THEN "[" ELSE "v")
  ELSE IF c.fmt = "crypt" THEN "hex"
  ELSE ""

\* decrypt followed by JSON.parse: it fails on text that is not ciphertext
\* of this key.
decrypt(c, key) ==
  IF c.fmt = "crypt" /\ c.key = key THEN [ok |-> TRUE, doc |-> c.doc]
  ELSE [ok |-> FALSE, doc |-> DNull]

\* JSON.parse of a file's raw text: ciphertext is not JSON.
JSONparse(c) ==
  IF c.fmt = "plain" THEN [ok |-> TRUE, doc |-> c.doc]
  ELSE [ok |-> FALSE, doc |-> DNull]

AbsentDisk(dir) == [exists |-> FALSE, dir |-> dir, content |-> NoContent, mtime |-> 0]

\* fs.writeFileSync, by the store or by another process.
WriteFile(dk, c) == [exists |-> TRUE, dir |-> TRUE, content |-> c, mtime |-> dk.mtime + 1]

(***************************************************************************)
(* _writeStore and _readStore.  e = [disk, stat] is what they read and     *)
(* change; o is the options, dw is disableWrites, fe is fileExists.        *)
(***************************************************************************)
\* A _writeStore that does not record stat.
WriteStoreKeepsStat(e, o, dw, fe, h, c, iv, ext) ==
  IF dw \/ ext = FsError THEN e
  ELSE LET doc == Stringify(h, c)
           raw == IF o.cryptKey # NoKey THEN encrypt(doc, o.cryptKey, iv) ELSE Plain(doc)
           d0 == IF ~fe /\ ~e.disk.dir THEN [e.disk EXCEPT !.dir = TRUE] ELSE e.disk
           d1 == WriteFile(d0, raw)
           d2 == IF ext.fmt = "none" THEN d1 ELSE WriteFile(d1, ext)
       IN [disk |-> d2, stat |-> e.stat]

\* _writeStore(store): nothing while writes are disabled; else the text of
\* the store, encrypted under a cryptKey, replaces the file, after the
\* folder is made when the file was not there at construction; stat is
\* recorded under updateOnExternalChanges.  ext is a write of another
\* process that lands between writeFileSync and statSync (NoContent: none),
\* or FsError: the file system refuses the write, nothing is written and
\* the error leaves _writeStore (WriteThrows).
WriteStore(e, o, dw, fe, h, c, iv, ext) ==
  IF dw \/ ext = FsError THEN e
  ELSE LET doc == Stringify(h, c)
           raw == IF o.cryptKey # NoKey THEN encrypt(doc, o.cryptKey, iv) ELSE Plain(doc)
           d0 == IF ~fe /\ ~e.disk.dir THEN [e.disk EXCEPT !.dir = TRUE] ELSE e.disk
           d1 == WriteFile(d0, raw)
           d2 == IF ext.fmt = "none" THEN d1 ELSE WriteFile(d1, ext)
       IN [disk |-> d2,
           stat |-> IF o.updateOnExternalChanges THEN d2.mtime ELSE e.stat]

\* An error of fs.mkdirSync or fs.writeFileSync leaves _writeStore.
WriteThrows(dw, ext) == ~dw /\ ext = FsError

\* JSON.stringify(new Proxy(JSON.parse(raw), handler)): the text written
\* back when a plaintext file is migrated.
Reserialize(d) ==
  LET r == Store(EmptyHeap, d)
  IN [h |-> r.h, c |-> r.c]

\* A reader that takes an empty file for an empty store.
EmptyFileAsNew(e) == [ok |-> TRUE, doc |-> DEmpty, e |-> e]

\* throw new Error(`Database file ${file} is empty!`)
EmptyFileResult(e) == [ok |-> FALSE, doc |-> DNull, e |-> e]

\* _readStore(): the parsed content, or an error; a plaintext mapping read
\* under a cryptKey is written back encrypted first.
ReadStore(e, o, dw, fe, iv) ==
  LET raw == e.disk.content
  IN IF raw = EmptyContent THEN EmptyFileResult(e)
     ELSE IF o.cryptKey # NoKey
     THEN IF FirstChar(raw) = "{"
          THEN LET p == Reserialize(raw.doc)
               IN [ok |-> TRUE, doc |-> raw.doc,
                   e |-> WriteStore(e, o, dw, fe, p.h, p.c, iv, NoContent)]
          ELSE LET r == decrypt(raw, o.cryptKey)
               IN [ok |-> r.ok, doc |-> r.doc, e |-> e]
     ELSE LET r == JSONparse(raw)
          IN [ok |-> r.ok, doc |-> r.doc, e |-> e]

(***************************************************************************)
(* The merge of a snapshot into the live root.  The merge works on the     *)
(* store, which is the proxy: what it assigns goes through handler.set,    *)
(* what it deletes goes to the target directly.                            *)
(* st = [h, err, e, tr]: the heap; whether a TypeError has been thrown     *)
(* (the rest is then skipped); the disk and stat; the mutations so far,    *)
(* each with the heap it left.                                             *)
(* cx = [o, dw, fe, root, iv]: the options, disableWrites during the       *)
(* merge, fileExists, the root node, the iv a write would draw.            *)
(***************************************************************************)
Threw(st) == [st EXCEPT !.err = TRUE]

\* handler.set from inside the merge: target[key] = value; _writeStore(store).
ProxySet(cx, st, id, key, c) ==
  LET h1 == SetField(st.h, id, key, c)
  IN [h |-> h1, err |-> FALSE,
      e |-> WriteStore(st.e, cx.o, cx.dw, cx.fe, h1, Ref(cx.root), cx.iv, NoContent),
      tr |-> Append(st.tr, [op |-> "set", h |-> h1])]

\* delete _old[key]: the proxy has no trap for it.
ProxyDelete(st, id, key) ==
  LET h1 == DelField(st.h, id, key)
  IN [st EXCEPT !.h = h1, !.tr = Append(st.tr, [op |-> "delete", h |-> h1])]

\* _rSet(_new, _old): for every key of _new, recurse when the new value is
\* typeof "object" and the old one is defined, else assign.  Reading or
\* assigning a property of null or of a number throws (strict mode).
RECURSIVE rSet(_, _, _, _)
RECURSIVE rSetKeys(_, _, _, _, _)
rSet(cx, st, new, old) ==
  IF st.err \/ ~IsContainer(new) THEN st ELSE rSetKeys(cx, st, new, old, 1)

rSetKeys(cx, st, new, old, i) ==
  IF st.err \/ i > Len(KeyOrder) THEN st
  ELSE LET key == KeyOrder[i]
       IN IF key \notin DOMAIN new.f THEN rSetKeys(cx, st, new, old, i + 1)
          ELSE IF old.t # "ref" THEN Threw(st)
          ELSE LET nd == st.h[old.v]
                   nk == new.f[key]
                   st1 == IF TypeofObject(nk)
                          THEN IF key \notin DOMAIN nd.f
                               THEN LET r == Store(st.h, nk)
                                    IN ProxySet(cx, [st EXCEPT !.h = r.h], old.v, key, r.c)
                               ELSE rSet(cx, st, nk, nd.f[key])
                          ELSE ProxySet(cx, st, old.v, key, Num(nk.n))
               IN rSetKeys(cx, st1, new, old, i + 1)

\* A test that takes null for undefined too (== for ===).
IsUndefinedLoose(new, key) == key \notin DOMAIN new.f \/ new.f[key].t = "null"

\* _new[key] === undefined
IsUndefined(new, key) == key \notin DOMAIN new.f

\* _rClean(_new, _old): for every key of _old, delete it when _new has none,
\* else recurse when the old value is typeof "object".  Reading a property
\* of null throws.
RECURSIVE rClean(_, _, _)
RECURSIVE rCleanKeys(_, _, _, _)
rClean(st, new, old) ==
  IF st.err \/ old.t # "ref" THEN st ELSE rCleanKeys(st, new, old, 1)

rCleanKeys(st, new, old, i) ==
  IF st.err \/ i > Len(KeyOrder) THEN st
  ELSE LET key == KeyOrder[i]
           nd == st.h[old.v]
       IN IF key \notin DOMAIN nd.f THEN rCleanKeys(st, new, old, i + 1)
          ELSE IF new.t = "null" THEN Threw(st)
          ELSE LET st1 == IF IsUndefined(new, key)
                          THEN ProxyDelete(st, old.v, key)
                          ELSE IF nd.f[key].t \in {"ref", "null"}
                          THEN rClean(st, new.f[key], nd.f[key])
                          ELSE st
               IN rCleanKeys(st1, new, old, i + 1)

\* A merge that leaves disableWrites as it finds it.
SuppressedAsBefore(dw) == dw

\* disableWrites = true, at the start of _recursiveUpdate.
SuppressedDuring(dw) == TRUE

\* The Apply pass: _rSet(_new, store) on heap h with the file as e.
ApplyPass(cx, h, e, new) ==
  rSet(cx, [h |-> h, err |-> FALSE, e |-> e, tr |-> << >>], new, Ref(cx.root))

\* disableWrites = false: reached only when neither pass threw.
WritesResumed(st) ==
  [h |-> st.h, err |-> st.err, dw |-> st.err, e |-> st.e, tr |-> st.tr]

\* _recursiveUpdate(_new, store): writes are disabled, _rSet, _rClean, writes
\* are enabled again; a throw leaves them disabled.  cx.dw is disableWrites
\* as the merge finds it; dw of the result is disableWrites afterwards.
recursiveUpdate(cx, h, e, new) ==
  WritesResumed(rClean(ApplyPass([cx EXCEPT !.dw = SuppressedDuring(cx.dw)], h, e, new),
                       new, Ref(cx.root)))

(***************************************************************************)
(* The inputs the model draws from.                                        *)
(***************************************************************************)
\* A cryptKey.
Key1 == "k1"

CryptKeys == {NoKey, Key1}

\* The ivs crypto.randomBytes returns: one stands for them all, no formula
\* here compares two ciphertexts.
IVs == {1}

\* options.template undefined.
NoTemplate == [t |-> "undef", n |-> 0, f |-> EmptyF]

\* {a: [1, 2], b: {a: 1}}
Template1 == DObj([k \in {"a", "b"} |-> IF k = "a" THEN DArr(<<DNum(1), DNum(2)>>)
                                        ELSE DObj([j \in {"a"} |-> DNum(1)])])

Templates == {NoTemplate, Template1}

\* {a: null, b: {a: 2, b: 1}}
File1 == DObj([k \in {"a", "b"} |-> IF k = "a" THEN DNull
                                    ELSE DObj([j \in {"a", "b"} |-> IF j = "a" THEN DNum(2) ELSE DNum(1)])])

\* {a: [1], b: {b: 2}}
Ext1 == DObj([k \in {"a", "b"} |-> IF k = "a" THEN DArr(<<DNum(1)>>)
                                   ELSE DObj([j \in {"b"} |-> DNum(2)])])

\* {a: null, b: {a: 2}}
Ext2 == DObj([k \in {"a", "b"} |-> IF k = "a" THEN DNull
                                   ELSE DObj([j \in {"a"} |-> DNum(2)])])

\* {a: {a: 1}}
Ext3 == DObj([k \in {"a"} |-> DObj([j \in {"a"} |-> DNum(1)])])

ExtDocs == {Ext1, Ext2, Ext3}

\* What another process may write: JSON text, or ciphertext under Key1,
\* which a store without that key cannot parse.
ExtContents(o) ==
  {Plain(d) : d \in ExtDocs} \cup {encrypt(Ext1, Key1, 1)}

\* The files a store may find at construction.
InitDisks ==
  {AbsentDisk(FALSE)}
    \cup {WriteFile(AbsentDisk(TRUE), c) :
             c \in {Plain(File1), encrypt(File1, Key1, 1), EmptyContent}}

\* The values the caller assigns: 2, {a: 1}.
SetValues == {DNum(2), DObj([j \in {"a"} |-> DNum(1)])}

ObjKeys == {"a", "b"}

\* The keys the caller assigns on a node: any name on a mapping; on an array
\* an index up to its length (overwrite or append).
SetKeys(nd) ==
  IF nd.kind = "arr"
  THEN {IdxKey(i) : i \in {j \in 0..nd.len : j < Len(IdxKeys)}}
  ELSE ObjKeys

\* The options db() may be called with (pretty, which only lays the text
\* out, is left out).
OptionSets ==
  [template : Templates, cryptKey : CryptKeys, forceCreate : BOOLEAN,
   updateOnExternalChanges : BOOLEAN]

NoOptions ==
  [template |-> NoTemplate, cryptKey |-> NoKey, forceCreate |-> FALSE,
   updateOnExternalChanges |-> FALSE]

(***************************************************************************)
(* The state.                                                              *)
(***************************************************************************)
VARIABLES
  pc,             \* "new": db() not called yet; "open": it returned; "failed": it threw
  options,        \* the options db() was called with
  heap,           \* the objects of the process
  store,          \* the node the store's proxy wraps (0: none)
  defaultDB,      \* the node of options.template || {} (0: none)
  disk,           \* the backing file and its folder
  fileExists,     \* the closure's fileExists
  stat,           \* the mtime of the closure's stat (0: unset)
  disableWrites,  \* the closure's disableWrites
  watching,       \* fs.watch is subscribed
  pending,        \* a change notification is on its way to the fs.watch listener
  timers,         \* the callbacks of the armed timers, in the order they will fire;
                  \* the closure's watchTimeout names the last one set
  last,           \* the last operation: what it was, how it ended, what it started from
  hist            \* how many caller writes that returned, caller deletes, external
                  \* writes and caller writes that threw (faults) so far;
                  \* foreign: another process wrote the file after the store last did

vars == <<pc, options, heap, store, defaultDB, disk, fileExists, stat, disableWrites,
          watching, pending, timers, last, hist>>

\* The timer watchTimeout names is armed (timers of one delay fire in the
\* order they were set, so it is the last to fire).
watchTimeout == timers # << >>

Last(op, res) == [op |-> op, res |-> res, target |-> 0, h |-> EmptyHeap, snap |-> DNull,
                  disk |-> AbsentDisk(FALSE), rdisk |-> AbsentDisk(FALSE),
                  foreign |-> FALSE, fault |-> FALSE]

Ops == hist.sets + hist.dels + hist.exts + hist.faults

Roots == {store, defaultDB}

\* The file system may refuse a write the store attempts.
WriteFaults == IF ~disableWrites THEN {FsError} ELSE {}

\* What may land between the store's writeFileSync and its statSync.
RaceContents(o) ==
  IF o.updateOnExternalChanges /\ ~disableWrites THEN {Plain(Ext3)} ELSE {}

\* The nodes the caller reaches through the proxy: the root and what it
\* leads to.
Views == IF pc = "open" THEN Reach(heap, {store}) ELSE {}

Init ==
  /\ pc = "new"
  /\ options = NoOptions
  /\ heap = EmptyHeap
  /\ store = 0
  /\ defaultDB = 0
  /\ disk \in InitDisks
  /\ fileExists = FALSE
  /\ stat = 0
  /\ disableWrites = FALSE
  /\ watching = FALSE
  /\ pending = FALSE
  /\ timers = << >>
  /\ last = Last("init", "ok")
  /\ hist = [sets |-> 0, dels |-> 0, exts |-> 0, faults |-> 0, foreign |-> FALSE]

\* The ivs an operation under these options may draw (none without a key).
IVsFor(o) == IF o.cryptKey # NoKey THEN IVs ELSE {0}

\* { ...defaultDB }: a new mapping with the template's own properties; the
\* nested nodes are the template's.
ShallowCopy(h, id) ==
  LET n == FirstFree(h)
  IN [h |-> [h EXCEPT ![n] = [kind |-> "obj", len |-> 0, f |-> h[id].f]], id |-> n]

\* A clearTimeout that cancels nothing.
clearTimeoutNothing(ts) == ts

\* clearTimeout(watchTimeout): the timer set last is cancelled if it is
\* still armed.
clearTimeout(ts) == IF ts = << >> THEN ts ELSE SubSeq(ts, 1, Len(ts) - 1)

\* watchTimeout = setTimeout(cb, delay)
setTimeout(ts, cb) == Append(ts, cb)

(***************************************************************************)
(* db(file, options): the body of the function after the closures.         *)
(***************************************************************************)
\* A constructor that prefers a given template to the file.
ReadsFileUnlessTemplate(exists, o) == exists /\ o.template.t = "undef"

\* if (fileExists): the file decides the root whenever it exists.
ReadsFile(exists, o) == exists

\* A constructor that always writes the file.
CreatesFileAlways(o) == TRUE

\* if (options.forceCreate === true)
CreatesFile(o) == o.forceCreate

ConstructResult(o, iv) ==
  LET t == IF o.template.t = "undef" THEN DEmpty ELSE o.template
      r0 == Store(heap, t)
      e0 == [disk |-> disk, stat |-> stat]
      base == [pc |-> "open", heap |-> r0.h, store |-> 0, defaultDB |-> r0.c.v,
               disk |-> disk, stat |-> stat, fileExists |-> disk.exists,
               watching |-> FALSE]
  IN IF ReadsFile(disk.exists, o)
     THEN LET r == ReadStore(e0, o, FALSE, TRUE, iv)
          IN IF ~r.ok
             THEN [base EXCEPT !.pc = "failed", !.heap = heap, !.defaultDB = 0]
             ELSE LET s == Store(r0.h, r.doc)
                  IN [base EXCEPT !.heap = s.h, !.store = s.c.v, !.disk = r.e.disk,
                                  !.stat = IF o.updateOnExternalChanges
                                           THEN r.e.disk.mtime ELSE r.e.stat,
                                  !.watching = o.updateOnExternalChanges]
     ELSE LET s == ShallowCopy(r0.h, r0.c.v)
          IN IF CreatesFile(o)
             THEN LET e1 == WriteStore(e0, o, FALSE, disk.exists, s.h, r0.c, iv, NoContent)
                  IN [base EXCEPT !.heap = s.h, !.store = s.id, !.disk = e1.disk,
                                  !.stat = e1.stat, !.fileExists = TRUE,
                                  !.watching = o.updateOnExternalChanges]
             ELSE [base EXCEPT !.heap = s.h, !.store = s.id]

Construct(o, iv) ==
  /\ pc = "new"
  /\ LET n == ConstructResult(o, iv)
     IN /\ pc' = n.pc
        /\ heap' = n.heap
        /\ store' = n.store
        /\ defaultDB' = n.defaultDB
        /\ disk' = n.disk
        /\ stat' = n.stat
        /\ fileExists' = n.fileExists
        /\ watching' = n.watching
        /\ last' = [Last("construct", IF n.pc = "open" THEN "ok" ELSE "threw")
                      EXCEPT !.disk = disk, !.rdisk = n.disk]
        /\ timers' = IF n.watching THEN setTimeout(timers, "noop") ELSE timers
  /\ options' = o
  /\ UNCHANGED <<disableWrites, pending, hist>>

(***************************************************************************)
(* handler.set, through the root view or a nested view: target[key] =      *)
(* value; _writeStore(store); return true.                                 *)
(***************************************************************************)
\* A handler that writes the store before it assigns.
SetResultWriteFirst(target, key, d, iv, ext) ==
  LET r == Store(heap, d)
      h1 == SetField(r.h, target, key, r.c)
      e1 == WriteStore([disk |-> disk, stat |-> stat], options, disableWrites,
                       fileExists, heap, Ref(store), iv, ext)
  IN [heap |-> Collect(h1, Roots), disk |-> e1.disk, stat |-> e1.stat,
      threw |-> WriteThrows(disableWrites, ext)]

\* A handler that catches the error of _writeStore and returns true.
SetResultSwallows(target, key, d, iv, ext) ==
  LET r == Store(heap, d)
      h1 == SetField(r.h, target, key, r.c)
      e1 == WriteStore([disk |-> disk, stat |-> stat], options, disableWrites,
                       fileExists, h1, Ref(store), iv, ext)
  IN [heap |-> Collect(h1, Roots), disk |-> e1.disk, stat |-> e1.stat, threw |-> FALSE]

\* threw: the error of _writeStore leaves the handler, to the caller of the
\* write.
SetResult(target, key, d, iv, ext) ==
  LET r == Store(heap, d)
      h1 == SetField(r.h, target, key, r.c)
      e1 == WriteStore([disk |-> disk, stat |-> stat], options, disableWrites,
                       fileExists, h1, Ref(store), iv, ext)
  IN [heap |-> Collect(h1, Roots), disk |-> e1.disk, stat |-> e1.stat,
      threw |-> WriteThrows(disableWrites, ext)]

SetProp(target, key, d, iv, ext) ==
  /\ pc = "open"
  /\ Ops + (IF ext \in {NoContent, FsError} THEN 1 ELSE 2) <= MaxOps
  /\ Cardinality(FreeIds(heap)) >= NodeCount(d)
  /\ LET n == SetResult(target, key, d, iv, ext)
     IN /\ heap' = n.heap
        /\ disk' = n.disk
        /\ stat' = n.stat
        /\ last' = [Last("set", IF n.threw THEN "threw"
                                ELSE IF ext = NoContent THEN "ok" ELSE "raced")
                      EXCEPT !.target = target, !.disk = disk, !.fault = (ext = FsError)]
  /\ pending' = (pending \/ (watching /\ disk' # disk))
  /\ hist' = IF ext = FsError
             THEN [hist EXCEPT !.faults = @ + 1]
             ELSE [hist EXCEPT !.sets = @ + 1,
                               !.exts = @ + (IF ext = NoContent THEN 0 ELSE 1),
                               !.foreign = IF disableWrites THEN @ ELSE ext # NoContent]
  /\ UNCHANGED <<pc, options, store, defaultDB, fileExists, disableWrites, watching,
                 timers>>

(***************************************************************************)
(* delete view[key]: the handler has no deleteProperty trap, so the proxy  *)
(* deletes the property of the target and nothing else runs.               *)
(***************************************************************************)
DeleteProp(target, key) ==
  /\ pc = "open"
  /\ Ops < MaxOps
  /\ heap' = Collect(DelField(heap, target, key), Roots)
  /\ hist' = [hist EXCEPT !.dels = @ + 1]
  /\ last' = [Last("delete", "ok") EXCEPT !.target = target]
  /\ UNCHANGED <<pc, options, store, defaultDB, disk, fileExists, stat, disableWrites,
                 watching, pending, timers>>

(***************************************************************************)
(* Another process writes the file.                                        *)
(***************************************************************************)
ExternalWrite(c) ==
  /\ pc = "open"
  /\ options.updateOnExternalChanges
  /\ Ops < MaxOps
  /\ disk' = WriteFile(disk, c)
  /\ pending' = (pending \/ watching)
  /\ hist' = [hist EXCEPT !.exts = @ + 1, !.foreign = TRUE]
  /\ last' = Last("external", "ok")
  /\ UNCHANGED <<pc, options, heap, store, defaultDB, fileExists, stat, disableWrites,
                 watching, timers>>

(***************************************************************************)
(* The fs.watch listener: clearTimeout, setTimeout(..., 5).  One change of *)
(* the file may raise several notifications (more).                        *)
(***************************************************************************)
Notify(more) ==
  /\ watching
  /\ pending
  /\ pending' = more
  /\ timers' = setTimeout(clearTimeout(timers), "check")
  /\ last' = Last("notify", IF timers # << >> /\ timers[Len(timers)] = "check"
                            THEN "restarted" ELSE "started")
  /\ UNCHANGED <<pc, options, heap, store, defaultDB, disk, fileExists, stat,
                 disableWrites, watching, hist>>

(***************************************************************************)
(* The timer _watchFile sets first, setTimeout(() => null, 0), fires.      *)
(***************************************************************************)
InitialTimerFire ==
  /\ timers # << >>
  /\ Head(timers) = "noop"
  /\ timers' = Tail(timers)
  /\ UNCHANGED <<pc, options, heap, store, defaultDB, disk, fileExists, stat,
                 disableWrites, watching, pending, last, hist>>

(***************************************************************************)
(* The debounce timer's callback:                                          *)
(* if (stat.mtimeMs !== fs.statSync(file).mtimeMs)                          *)
(*   _recursiveUpdate(_readStore(), store)                                 *)
(* Nothing in the callback catches: res "readerr" (_readStore threw) and   *)
(* res "threw" (the merge threw) are errors thrown out of the callback,    *)
(* uncaught.  The model lets the process live on (a host with an           *)
(* uncaughtException handler).                                             *)
(***************************************************************************)
\* What the merge's assignments reach through handler.set.
MergeContext(iv) ==
  [o |-> options, dw |-> disableWrites, fe |-> fileExists, root |-> store, iv |-> iv]

TimerResult(iv) ==
  LET e0 == [disk |-> disk, stat |-> stat]
      same == [res |-> "same", heap |-> heap, e |-> e0, dw |-> disableWrites,
               snap |-> DNull, rdisk |-> disk]
  IN IF stat = disk.mtime THEN same
     ELSE LET r == ReadStore(e0, options, disableWrites, fileExists, iv)
          IN IF ~r.ok THEN [same EXCEPT !.res = "readerr"]
             ELSE LET m == recursiveUpdate(MergeContext(iv), heap, r.e, r.doc)
                  IN [res |-> IF m.err THEN "threw" ELSE "merged",
                      heap |-> Collect(m.h, Roots), e |-> m.e, dw |-> m.dw,
                      snap |-> r.doc, rdisk |-> r.e.disk]

TimerFire(iv) ==
  /\ timers # << >>
  /\ Head(timers) = "check"
  /\ timers' = Tail(timers)
  /\ LET n == TimerResult(iv)
     IN /\ heap' = n.heap
        /\ disk' = n.e.disk
        /\ stat' = n.e.stat
        /\ disableWrites' = n.dw
        /\ pending' = (pending \/ n.e.disk.mtime # disk.mtime)
        /\ last' = [Last("timer", n.res) EXCEPT !.h = heap, !.snap = n.snap, !.disk = disk,
                                                !.rdisk = n.rdisk, !.foreign = hist.foreign]
        /\ hist' = [hist EXCEPT !.foreign = IF n.e.disk # disk THEN FALSE ELSE @]
  /\ UNCHANGED <<pc, options, store, defaultDB, fileExists, watching>>

Next ==
  \/ \E o \in OptionSets : \E iv \in IVsFor(o) : Construct(o, iv)
  \/ \E t \in Views : \E k \in SetKeys(heap[t]) : \E d \in SetValues :
       \E iv \in IVsFor(options), ext \in {NoContent} \cup RaceContents(options) \cup WriteFaults :
         SetProp(t, k, d, iv, ext)
  \/ \E t \in {v \in Views : heap[v].kind = "obj"} : \E k \in DOMAIN heap[t].f :
       DeleteProp(t, k)
  \/ \E c \in ExtContents(options) : ExternalWrite(c)
  \/ \E more \in BOOLEAN : Notify(more)
  \/ InitialTimerFire
  \/ \E iv \in IVsFor(options) : TimerFire(iv)

Spec == Init /\ [][Next]_vars

(***************************************************************************)
(* What the properties below speak of.                                     *)
(***************************************************************************)
\* The live root, as a value.
RootValue == Value(heap, Ref(store))

\* The root a second db(file, {cryptKey: key}) reports on a disk: the parsed
\* file, or {} when there is none.
OpenRoot(dk, key) ==
  IF ~dk.exists THEN [ok |-> TRUE, root |-> DEmpty]
  ELSE LET r == ReadStore([disk |-> dk, stat |-> 0], [NoOptions EXCEPT !.cryptKey = key],
                          FALSE, TRUE, 1)
           s == Store(EmptyHeap, r.doc)
       IN [ok |-> r.ok, root |-> Value(s.h, s.c)]

\* The file decodes to this value under the store's key.
FileHolds(dk, v) ==
  /\ dk.exists
  /\ OpenRoot(dk, options.cryptKey).ok
  /\ OpenRoot(dk, options.cryptKey).root = v

\* options.template || {}
TemplateDoc(o) == IF o.template.t = "undef" THEN DEmpty ELSE o.template

\* db() has just returned a store, built on disk last.disk.
Constructed == pc = "open" /\ last.op = "construct"

Keys == {KeyOrder[i] : i \in 1..Len(KeyOrder)}

\* Positions: the key paths from the root as deep as a run can build.
PathDepth == MaxOps + 1

Paths == UNION {[1..n -> Keys] : n \in 0..PathDepth}

\* The node at a position of a heap (0: the position holds no node).
RECURSIVE NodeAt(_, _, _)
NodeAt(h, id, p) ==
  IF p = << >> THEN id
  ELSE IF id = 0 \/ p[1] \notin DOMAIN h[id].f \/ h[id].f[p[1]].t # "ref" THEN 0
  ELSE NodeAt(h, h[id].f[p[1]].v, Tail(p))

\* The document at a position of a document (undef: the position is absent).
RECURSIVE DocAt(_, _)
DocAt(d, p) ==
  IF p = << >> THEN d
  ELSE IF p[1] \notin DOMAIN d.f THEN NoTemplate
  ELSE DocAt(d.f[p[1]], Tail(p))

HasKey(h, id, p, k) == NodeAt(h, id, p) # 0 /\ k \in DOMAIN h[NodeAt(h, id, p)].f

\* The timer's callback has just run _recursiveUpdate on snapshot last.snap
\* and the root of heap last.h: it returned, or it threw part-way.
Reconciled == pc = "open" /\ last.op = "timer" /\ last.res \in {"merged", "threw"}

\* It returned.
Merged == pc = "open" /\ last.op = "timer" /\ last.res = "merged"

\* A leaf of a document, as the cell that holds it.
LeafCell(d) == IF d.t = "num" THEN Num(d.n) ELSE Null

(***************************************************************************)
(* C1.  Each time a property write made through the root view or a nested  *)
(* view returns, in a run where only the store has written the file, the   *)
(* file decodes to the whole current root: a second store opened on it     *)
(* with the same cryptKey reports a deep-equal root.                       *)
(***************************************************************************)
C1_WritePersistsRoot ==
  (pc = "open" /\ last.op = "set" /\ last.res = "ok" /\ hist.exts = 0)
    => FileHolds(disk, RootValue)

\* A write through a nested view has returned, after an earlier write.
C1_Witness ==
  /\ pc = "open" /\ last.op = "set" /\ last.res = "ok" /\ hist.exts = 0
  /\ last.target # store
  /\ hist.sets = 2
  /\ FileHolds(disk, RootValue)

(***************************************************************************)
(* C2.  When a delete of a property through the root view or a nested view *)
(* returns, the file decodes to the current root, which lacks the          *)
(* property.  (The handler has no deleteProperty trap: this fails.)        *)
(***************************************************************************)
C2_DeletePersisted ==
  (pc = "open" /\ last.op = "delete" /\ hist.exts = 0 /\ hist.faults = 0)
    => FileHolds(disk, RootValue)

(***************************************************************************)
(* C3.  As claimed: after a store is constructed on a fresh path with      *)
(* template V, with or without forceCreate, a second store on that path    *)
(* with the same cryptKey and no template reports a root deep-equal to V.  *)
(***************************************************************************)
C3_RoundTripAnyConstruction ==
  (Constructed /\ ~last.disk.exists /\ options.template # NoTemplate)
    => OpenRoot(disk, options.cryptKey).root = options.template

(***************************************************************************)
(* C3, amended.  The round trip holds when forceCreate is given.           *)
(***************************************************************************)
C3_RoundTripForceCreate ==
  (Constructed /\ ~last.disk.exists /\ options.template # NoTemplate /\ options.forceCreate)
    => /\ OpenRoot(disk, options.cryptKey).ok
       /\ OpenRoot(disk, options.cryptKey).root = options.template

\* An encrypted store has been created from the template.
C3_Witness ==
  /\ Constructed /\ ~last.disk.exists /\ options.forceCreate
  /\ options.template = Template1
  /\ options.cryptKey # NoKey
  /\ disk.content.fmt = "crypt"
  /\ OpenRoot(disk, options.cryptKey).root = Template1

(***************************************************************************)
(* C4.  With no file: under forceCreate the file exists when db() returns  *)
(* and parses to the template; without it db() writes nothing, and the     *)
(* file is there exactly when a property write has been made.              *)
(***************************************************************************)
C4_ForceCreateOrLazy ==
  /\ (Constructed /\ ~last.disk.exists /\ options.forceCreate)
       => FileHolds(disk, TemplateDoc(options))
  /\ (Constructed /\ ~last.disk.exists /\ ~options.forceCreate) => disk = last.disk
  /\ (pc = "open" /\ ~fileExists /\ hist.exts = 0) => (disk.exists <=> hist.sets > 0)

\* The file of a store made without forceCreate has appeared on its first
\* property write.
C4_Witness ==
  /\ pc = "open" /\ ~fileExists /\ ~options.forceCreate
  /\ last.op = "set" /\ hist.sets = 1 /\ hist.exts = 0
  /\ disk.exists

(***************************************************************************)
(* C5.  As claimed: with no file and updateOnExternalChanges set, db()     *)
(* creates the file and starts the watcher, without forceCreate too.       *)
(* (The code does neither unless forceCreate is given: this fails.)        *)
(***************************************************************************)
C5_WatchImpliesCreate ==
  (Constructed /\ ~last.disk.exists /\ options.updateOnExternalChanges)
    => disk.exists /\ watching

(***************************************************************************)
(* C6.  When the file exists at construction, the root is the decoded      *)
(* content of the file whatever template and forceCreate are, and the      *)
(* decoded content of the file is the same after construction.             *)
(***************************************************************************)
C6_FileBeatsTemplate ==
  (Constructed /\ last.disk.exists)
    => /\ RootValue = OpenRoot(last.disk, options.cryptKey).root
       /\ FileHolds(disk, OpenRoot(last.disk, options.cryptKey).root)

\* A store was opened on an existing file with a template that differs
\* from the file, and forceCreate.
C6_Witness ==
  /\ Constructed /\ last.disk.exists
  /\ options.template = Template1 /\ options.forceCreate
  /\ RootValue = File1
  /\ RootValue # options.template

(***************************************************************************)
(* C7.  As claimed: after a merge, every position that held a node before  *)
(* and holds a mapping or an array in the snapshot holds the same node,    *)
(* and that node shows the snapshot's leaf values (numbers and nulls).     *)
(* (The node is kept, but a null of the snapshot is not written over a     *)
(* value: this fails.)                                                     *)
(***************************************************************************)
C7_SameNodeShowsSnapshot ==
  Merged =>
    \A p \in Paths :
      (NodeAt(last.h, store, p) # 0 /\ IsContainer(DocAt(last.snap, p)))
        => /\ NodeAt(heap, store, p) = NodeAt(last.h, store, p)
           /\ \A k \in DOMAIN DocAt(last.snap, p).f :
                ~IsContainer(DocAt(last.snap, p).f[k])
                  => /\ k \in DOMAIN heap[NodeAt(last.h, store, p)].f
                     /\ heap[NodeAt(last.h, store, p)].f[k] = LeafCell(DocAt(last.snap, p).f[k])

\* The identity half of C7 alone, which the code keeps.
C7_SameNode ==
  Merged =>
    \A p \in Paths :
      (NodeAt(last.h, store, p) # 0 /\ IsContainer(DocAt(last.snap, p)))
        => NodeAt(heap, store, p) = NodeAt(last.h, store, p)

(***************************************************************************)
(* C8.  As claimed: after a merge the live root is deep-equal to the       *)
(* snapshot.  (It is not, for a null of the snapshot over a value, an      *)
(* array that shrinks, an empty mapping over a scalar: this fails.)        *)
(***************************************************************************)
C8_MergeMirrorsSnapshot == Merged => RootValue = last.snap

(***************************************************************************)
(* C9.  As claimed: after a reconciliation, every key that was in the live *)
(* root at some position, at any depth, and is absent from the snapshot's  *)
(* mapping or array at that position is absent from the live root.  (A     *)
(* snapshot that puts a mapping where the live root holds null makes       *)
(* _rSet throw, and no key is pruned after that: this fails.)              *)
(***************************************************************************)
C9_PrunesRemovedKeys ==
  Reconciled =>
    \A p \in Paths : \A k \in Keys :
      (/\ HasKey(last.h, store, p, k)
       /\ IsContainer(DocAt(last.snap, p))
       /\ DocAt(last.snap, p \o <<k>>).t = "undef")
        => ~HasKey(heap, store, p, k)

\* What the code keeps of C9: the keys are pruned when the merge returns.
C9_PrunesWhenMergeReturns ==
  Merged =>
    \A p \in Paths : \A k \in Keys :
      (/\ HasKey(last.h, store, p, k)
       /\ IsContainer(DocAt(last.snap, p))
       /\ DocAt(last.snap, p \o <<k>>).t = "undef")
        => ~HasKey(heap, store, p, k)

(***************************************************************************)
(* C10.  As claimed: with the watcher on, once no notification is on its   *)
(* way and no debounce timer is armed, the live root is deep-equal to the  *)
(* decoded content of the file.  (An external write that lands between     *)
(* the store's write and its statSync is taken for the store's own, and a  *)
(* merge does not always reach the snapshot: this fails.)                  *)
(***************************************************************************)
C10_ConvergesWhenQuiet ==
  (pc = "open" /\ watching /\ hist.dels = 0 /\ hist.faults = 0 /\ ~pending /\ ~watchTimeout)
    => FileHolds(disk, RootValue)

\* A document as the value it parses to.
DocValue(d) == LET s == Store(EmptyHeap, d) IN Value(s.h, s.c)

\* A file of plaintext JSON that starts with "{".
LegacyFile(dk) == dk.exists /\ dk.content.fmt = "plain" /\ FirstChar(dk.content) = "{"

\* _readStore() has just returned a value read from disk last.disk, at
\* construction or in the timer's callback; last.rdisk is the disk it left.
ReadReturned ==
  /\ pc = "open"
  /\ \/ last.op = "construct" /\ last.disk.exists
     \/ last.op = "timer" /\ last.res \in {"merged", "threw"}

\* The merge of the timer's callback that has just run, done again from
\* where it started.
LastMerge ==
  recursiveUpdate([o |-> options, dw |-> FALSE, fe |-> fileExists, root |-> store, iv |-> 1],
                  last.h, [disk |-> last.rdisk, stat |-> 0], last.snap)

(***************************************************************************)
(* C11.  As claimed: when _readStore of a store with a cryptKey returns    *)
(* the value of a plaintext file that starts with "{", the file holds      *)
(* ciphertext that decodes, under the same key, to the plaintext's value.  *)
(* (_writeStore does nothing while disableWrites is true, and a merge that *)
(* threw has left it true: a later read returns with the file still in     *)
(* plaintext: this fails.)                                                 *)
(***************************************************************************)
C11_LegacyFileMigrated ==
  (ReadReturned /\ options.cryptKey # NoKey /\ LegacyFile(last.disk))
    => /\ last.rdisk.content.fmt = "crypt"
       /\ OpenRoot(last.rdisk, options.cryptKey).ok
       /\ OpenRoot(last.rdisk, options.cryptKey).root = DocValue(last.disk.content.doc)

\* What the code keeps of C11: the file is migrated by every read made
\* while disableWrites is false, so by the read of the constructor.
C11_MigratedAtConstruction ==
  (Constructed /\ options.cryptKey # NoKey /\ LegacyFile(last.disk))
    => /\ disk.content.fmt = "crypt"
       /\ OpenRoot(disk, options.cryptKey).root = DocValue(last.disk.content.doc)

(***************************************************************************)
(* C14.  From the start of the Apply pass to the end of the Prune pass of  *)
(* a reconciliation, whether it returns or throws, the file and its        *)
(* modification time are as _readStore left them, although the merge       *)
(* assigns through the proxy.                                              *)
(***************************************************************************)
C14_NoWriteDuringMerge == Reconciled => disk = last.rdisk

\* A merge has assigned a property through the proxy and returned.
C14_Witness ==
  /\ Merged
  /\ \E i \in 1..Len(LastMerge.tr) : LastMerge.tr[i].op = "set"
  /\ RootValue # Value(last.h, Ref(store))
  /\ disk = last.rdisk

(***************************************************************************)
(* C12.  db() on a file that exists and is empty throws: no store is       *)
(* returned, the file is left as it was, and no watcher is started,        *)
(* whatever the options are.                                               *)
(***************************************************************************)
C12_EmptyFileIsFatal ==
  (last.op = "construct" /\ last.disk.exists /\ last.disk.content = EmptyContent)
    => /\ pc = "failed"
       /\ store = 0
       /\ disk = last.disk
       /\ ~watching

\* db() has thrown on an empty file, called with a template, forceCreate
\* and updateOnExternalChanges.
C12_Witness ==
  /\ pc = "failed" /\ last.op = "construct" /\ last.res = "threw"
  /\ last.disk.content = EmptyContent
  /\ options.template = Template1 /\ options.forceCreate /\ options.updateOnExternalChanges
  /\ disk.content = EmptyContent

(***************************************************************************)
(* C13.  As claimed: no error is thrown out of the timer's callback.       *)
(* (The callback has no try: an error of _readStore or of the merge        *)
(* leaves it uncaught: this fails.)                                        *)
(***************************************************************************)
C13_TimerErrorsContained ==
  last.op = "timer" => last.res \notin {"readerr", "threw"}

(***************************************************************************)
(* C15.  When the timer's callback runs and no other process has written   *)
(* the file since the store last wrote it (or, with no write of the store  *)
(* yet, since db() returned), the recorded and the current modification    *)
(* times are equal: the callback reads nothing and leaves the live root    *)
(* and the file as they are.                                               *)
(***************************************************************************)
C15_OwnWriteNotReconciled ==
  (last.op = "timer" /\ ~last.foreign)
    => /\ last.res = "same"
       /\ heap = last.h
       /\ disk = last.disk

\* The timer has fired after a write of the store, with no write of
\* another process since, and did nothing.
C15_Witness ==
  /\ pc = "open" /\ last.op = "timer" /\ ~last.foreign
  /\ hist.sets > 0 /\ fileExists /\ disk.mtime > 1
  /\ last.res = "same"

(***************************************************************************)
(* C16.  As claimed: when the timer's callback has reconciled an external  *)
(* edit, the recorded modification time is the file's current one.  (The   *)
(* callback never assigns stat: it stays the time of the store's last      *)
(* write, and the next notification reconciles the same content again:     *)
(* this fails.)                                                            *)
(***************************************************************************)
C16_StatFollowsReconcile == Merged => stat = disk.mtime

(***************************************************************************)
(* C17.  At most one timer is armed at any time: each notification cancels *)
(* the timer set before it and sets a new one, so a burst of notifications *)
(* leaves one timer, set by the last of them, and one check when it fires. *)
(***************************************************************************)
C17_OneTimerPending ==
  /\ Len(timers) <= 1
  /\ (last.op = "notify") => timers = <<"check">>

\* A notification has arrived while the timer of an earlier one was armed.
C17_Witness ==
  /\ last.op = "notify" /\ last.res = "restarted"
  /\ timers = <<"check">>
  /\ hist.exts > 0

\* The Apply pass of the merge that has just run, done again from where it
\* started.
LastApply ==
  ApplyPass([o |-> options, dw |-> SuppressedDuring(FALSE), fe |-> fileExists,
             root |-> store, iv |-> 1],
            last.h, [disk |-> last.rdisk, stat |-> 0], last.snap)

(***************************************************************************)
(* C18.  As claimed: the Apply pass returns, and for every key of a        *)
(* mapping or array of the snapshot whose position the live root had,      *)
(* unless the snapshot's value and the live value at that key are both     *)
(* mappings or arrays, the live value at that key is the snapshot's value  *)
(* after the pass.  (A null of the snapshot is never written over a live   *)
(* value, and a mapping or array of the snapshot over a live null or       *)
(* number throws: this fails.)                                             *)
(***************************************************************************)
C18_ApplyOverwrites ==
  Reconciled =>
    /\ ~LastApply.err
    /\ \A p \in Paths :
         (NodeAt(last.h, store, p) # 0 /\ IsContainer(DocAt(last.snap, p)))
           => LET id == NodeAt(last.h, store, p)
                  new == DocAt(last.snap, p)
              IN \A k \in DOMAIN new.f :
                   ~(/\ IsContainer(new.f[k])
                     /\ k \in DOMAIN last.h[id].f
                     /\ last.h[id].f[k].t = "ref")
                     => /\ k \in DOMAIN LastApply.h[id].f
                        /\ Value(LastApply.h, LastApply.h[id].f[k]) = DocValue(new.f[k])

\* What the code keeps of C18: the keys whose snapshot value is a number,
\* and the keys the live mapping or array lacks, when the pass returns.
C18_ApplyWritesNumbersAndNewKeys ==
  (Reconciled /\ ~LastApply.err) =>
    \A p \in Paths :
      (NodeAt(last.h, store, p) # 0 /\ IsContainer(DocAt(last.snap, p)))
        => LET id == NodeAt(last.h, store, p)
               new == DocAt(last.snap, p)
           IN \A k \in DOMAIN new.f :
                (new.f[k].t = "num" \/ k \notin DOMAIN last.h[id].f)
                  => /\ k \in DOMAIN LastApply.h[id].f
                     /\ Value(LastApply.h, LastApply.h[id].f[k]) = DocValue(new.f[k])

\* The heaps the merge that has just run went through: where it started,
\* then the heap each of its assignments and deletes left.
MergeHeaps ==
  LET tr == LastMerge.tr
  IN <<last.h>> \o [i \in 1..Len(tr) |-> tr[i].h]

(***************************************************************************)
(* C19.  In a reconciliation, whether it returns or throws, no assignment  *)
(* follows a delete (Apply runs before Prune), and at every step a key     *)
(* that goes from a position of the live root is absent from the snapshot  *)
(* at that position: a key that the live root had before the merge and     *)
(* that the snapshot has is in the live root after every step.  (The live  *)
(* root is a tree: no node of it is reachable along two paths.)            *)
(***************************************************************************)
C19_OnlyAbsentKeysRemoved ==
  Reconciled =>
    LET tr == LastMerge.tr
        hs == MergeHeaps
    IN /\ \A i, j \in 1..Len(tr) : (i < j /\ tr[i].op = "delete") => tr[j].op = "delete"
       /\ \A i \in 2..Len(hs) : \A p \in Paths : \A k \in Keys :
            /\ (HasKey(hs[i - 1], store, p, k) /\ ~HasKey(hs[i], store, p, k))
                 => DocAt(last.snap, p \o <<k>>).t = "undef"
            /\ (HasKey(last.h, store, p, k) /\ DocAt(last.snap, p \o <<k>>).t # "undef")
                 => HasKey(hs[i], store, p, k)

\* A merge has assigned and deleted, and a key the snapshot holds as null
\* is still in the live root.
C19_Witness ==
  /\ Merged
  /\ LET tr == LastMerge.tr
     IN \E i, j \in 1..Len(tr) : i < j /\ tr[i].op = "set" /\ tr[j].op = "delete"
  /\ \E k \in DOMAIN last.snap.f :
       last.snap.f[k].t = "null" /\ HasKey(last.h, store, << >>, k) /\ HasKey(heap, store, << >>, k)

(***************************************************************************)
(* C20.  When the file system refuses the write of a caller's property     *)
(* write, the error leaves the handler to the caller of that write, the    *)
(* file is as it was before the write, and nothing is left armed to write  *)
(* it later: no notification, no timer.                                    *)
(***************************************************************************)
C20_WriteErrorRaised ==
  [][(hist'.faults # hist.faults)
       => /\ last'.op = "set" /\ last'.res = "threw"
          /\ disk' = disk /\ stat' = stat
          /\ pending' = pending /\ timers' = timers]_vars

\* A write through a nested view of a watching store has been refused.
C20_Witness ==
  /\ pc = "open" /\ last.op = "set" /\ last.fault /\ last.res = "threw"
  /\ last.target # store
  /\ watching
  /\ disk = last.disk
  /\ ~FileHolds(disk, RootValue)

(***************************************************************************)
(* C21.  When a caller's property write has executed and returned, write   *)
(* suppression is off and the file decodes to the root, whatever           *)
(* reconciliations ran before it and however they ended.                   *)
(***************************************************************************)
C21_CallerWriteNotSuppressed ==
  (pc = "open" /\ last.op = "set" /\ last.res = "ok")
    => (~disableWrites /\ disk.exists /\ disk.mtime # last.disk.mtime)

\* What the code does keep: a caller's write that finds suppression off
\* writes the file.
C21_WritesWhenNotSuppressed ==
  (pc = "open" /\ last.op = "set" /\ last.res = "ok" /\ ~disableWrites)
    => (disk.exists /\ disk.mtime # last.disk.mtime)

\* The caller's template object as it is now.
TemplateValue == Value(heap, Ref(defaultDB))

(***************************************************************************)
(* C22.  The caller's template object is never changed by the store: at    *)
(* every moment it still has the value it was passed to db() with, so a    *)
(* second store built from it starts from that value too.  Stated for the  *)
(* runs in which the file system refuses no write.                         *)
(***************************************************************************)
C22_TemplateUntouched ==
  (pc = "open" /\ defaultDB # 0 /\ hist.faults = 0)
    => TemplateValue = TemplateDoc(options)

\* What the code does keep: the root is a node of its own, and the template
\* keeps its own top-level keys, whatever is written on the root.
C22_RootIsOwnNode ==
  (pc = "open" /\ defaultDB # 0)
    => /\ store # defaultDB
       /\ DOMAIN heap[defaultDB].f = DOMAIN TemplateDoc(options).f

====
